---- MODULE Spec2Model ----
(***************************************************************************)
(* Bring-up core of the VT-x hypervisor: Vmm (vmm.rs) and Vcpu (vcpu.rs).  *)
(*                                                                         *)
(* Encoding of machine words.  A register, MSR or header value is the set  *)
(* of the positions of its 1 bits: u64 x is {b \in 0..63 : bit b of x}.    *)
(* The encoding is exact for the bitwise operations the code uses:         *)
(*   a | b  is  a \cup b,   a & b  is  a \cap b,   a & !b  is  a \ b,      *)
(*   x == 0 is  x = {},     set_bit(n, false) is  x \ {n}.                 *)
(* Physical addresses are compared with 0 only and are kept as numbers.    *)
(***************************************************************************)
EXTENDS Integers, Sequences, FiniteSets, TLC

(***************************************************************************)
(* Bit positions named by the code.                                        *)
(***************************************************************************)
VMX_LOCK_BIT == 0
VMXON_OUTSIDE_SMX == 2
CR4_ENABLE_VMX == 13
SHADOW_VMCS_BIT == 31

\* The flags the Cr0 and Cr4 bitflags types define; from_bits_truncate, and
\* the cr0()/cr4() reads, drop every other bit.
Cr0Flags == {0, 1, 2, 3, 4, 5, 16, 18, 29, 30, 31}
Cr4Flags == (0..14) \cup {16, 17, 18, 20, 21, 22}

(***************************************************************************)
(* Bounds.  Inputs range over the subsets of the first N positions of a    *)
(* probe order; each order starts with a bit the code names or a flag and  *)
(* continues with a bit outside the flags type.                            *)
(***************************************************************************)
NCr0Probe == 2
NCr4Probe == 2
NFcProbe == 4
NRevProbe == 2
MaxVcpus == 1
MaxCalls == 4
MaxProcessors == 2
MaxTable == 4
MaxIndex == 2

Cr0ProbeOrder == <<5, 6, 31, 32>>
Cr4ProbeOrder == <<13, 15, 5, 23>>
FcProbeOrder == <<0, 2, 1, 20, 63>>
RevProbeOrder == <<31, 0, 4, 30>>

Probe(order, n) == {order[i] : i \in {j \in 1..Len(order) : j <= n}}

Cr0Probe == Probe(Cr0ProbeOrder, NCr0Probe)
Cr4Probe == Probe(Cr4ProbeOrder, NCr4Probe)
FcProbe == Probe(FcProbeOrder, NFcProbe)
RevProbe == Probe(RevProbeOrder, NRevProbe)

\* The regions are naturally aligned 4-KByte pages.
PAGE_SIZE == 4096
\* What the address translation answers: 0 (failure) or a page address.
PhysicalAddresses == {0, PAGE_SIZE}

VARIABLES
    cr0,    \* control register CR0 of the logical processor
    cr4,    \* control register CR4 of the logical processor
    msr,    \* the model-specific registers the code reads and writes
    vmx,    \* VMX state of the logical processor
    vmm,    \* the Vmm: vcpu_table and processor_count
    vcpu,   \* a Vcpu of vcpu.rs: index and the OnceCell data
    call,   \* the operation that ran last: its name, inputs, result, effects
    hist    \* what an observer of the Vcpu has counted, and its lifecycle

vars == <<cr0, cr4, msr, vmx, vmm, vcpu, call, hist>>

\* Vcpu::new(index): the OnceCell is empty.  A cell is <<>> when empty and
\* <<d>> when it holds d.
Vcpu_new_index(index) == [index |-> index, data |-> <<>>]

\* Nothing called yet; the lifecycle of the Vcpu starts at NotVirtualized.
NoHistory ==
    [calls |-> 0, init_started |-> 0, init_ok |-> 0,
     state |-> "NotVirtualized", suspended |-> <<>>]

\* The processor outside VMX operation, with no current VMCS and no guest.
VmxOff == [root |-> FALSE, current_vmcs |-> 0, launched |-> FALSE]

NoCall == [op |-> "none", ret |-> "none"]

(***************************************************************************)
(* Control register adjustment (vmm.rs 117-150).                           *)
(***************************************************************************)
Cr0_from_bits_truncate(bits) == bits \cap Cr0Flags
Cr4_from_bits_truncate(bits) == bits \cap Cr4Flags

\* A plausible slip: the two masks applied in the wrong order.
set_cr0_bits_swapped(hw_cr0, m) ==
    (Cr0_from_bits_truncate(hw_cr0)
        \cap Cr0_from_bits_truncate(m.IA32_VMX_CR0_FIXED1))
        \cup Cr0_from_bits_truncate(m.IA32_VMX_CR0_FIXED0)

\* The value set_cr0_bits writes to CR0, from the hardware CR0 and the MSRs.
set_cr0_bits(hw_cr0, m) ==
    LET ia32_vmx_cr0_fixed0 == m.IA32_VMX_CR0_FIXED0
        ia32_vmx_cr0_fixed1 == m.IA32_VMX_CR0_FIXED1
        read == Cr0_from_bits_truncate(hw_cr0)
        ored == read \cup Cr0_from_bits_truncate(ia32_vmx_cr0_fixed0)
    IN  ored \cap Cr0_from_bits_truncate(ia32_vmx_cr0_fixed1)

\* A plausible slip: CR4 is assigned the forced bits (=) instead of having
\* them added (|=), so the bits it held are lost.
set_cr4_bits_overwrite(hw_cr4, m) ==
    Cr4_from_bits_truncate(m.IA32_VMX_CR4_FIXED0)
        \cap Cr4_from_bits_truncate(m.IA32_VMX_CR4_FIXED1)

\* The value set_cr4_bits writes to CR4.
set_cr4_bits(hw_cr4, m) ==
    LET ia32_vmx_cr4_fixed0 == m.IA32_VMX_CR4_FIXED0
        ia32_vmx_cr4_fixed1 == m.IA32_VMX_CR4_FIXED1
        read == Cr4_from_bits_truncate(hw_cr4)
        ored == read \cup Cr4_from_bits_truncate(ia32_vmx_cr4_fixed0)
    IN  ored \cap Cr4_from_bits_truncate(ia32_vmx_cr4_fixed1)

\* Vmm::adjust_control_registers: CR0, then CR4; the registers it leaves.
adjust_control_registers(hw_cr0, hw_cr4, m) ==
    [cr0 |-> set_cr0_bits(hw_cr0, m), cr4 |-> set_cr4_bits(hw_cr4, m)]

\* A call of Vmm::adjust_control_registers; it returns nothing.
AdjustControlRegisters ==
    LET r == adjust_control_registers(cr0, cr4, msr)
    IN  /\ cr0' = r.cr0
        /\ cr4' = r.cr4
        /\ call' = [op |-> "adjust_control_registers", ret |-> "unit"]
        /\ UNCHANGED <<msr, vmx, vmm, vcpu, hist>>

(***************************************************************************)
(* SpecAdjust: adjust_control_registers on every register value and every  *)
(* FIXED0/FIXED1 pair over the probed bits.                                *)
(***************************************************************************)
InitAdjust ==
    /\ cr0 \in SUBSET Cr0Probe
    /\ cr4 \in SUBSET Cr4Probe
    /\ \E c00 \in SUBSET Cr0Probe, c01 \in SUBSET Cr0Probe,
          c40 \in SUBSET Cr4Probe, c41 \in SUBSET Cr4Probe :
            msr = [IA32_FEATURE_CONTROL |-> {}, IA32_VMX_BASIC |-> {0},
                   IA32_VMX_CR0_FIXED0 |-> c00, IA32_VMX_CR0_FIXED1 |-> c01,
                   IA32_VMX_CR4_FIXED0 |-> c40, IA32_VMX_CR4_FIXED1 |-> c41]
    /\ vmx = VmxOff
    /\ vmm = [vcpu_table |-> <<>>, processor_count |-> 1]
    /\ vcpu = Vcpu_new_index(0)
    /\ hist = NoHistory
    /\ call = NoCall

NextAdjust == AdjustControlRegisters

SpecAdjust == InitAdjust /\ [][NextAdjust]_vars

(***************************************************************************)
(* C1.  After adjust_control_registers, CR0 holds every bit of             *)
(* IA32_VMX_CR0_FIXED0 and no bit outside IA32_VMX_CR0_FIXED1, and CR4 the *)
(* same with its own pair of MSRs, for all mask pairs and register values. *)
(***************************************************************************)
Adjusted == call.op = "adjust_control_registers"

Cr0Mandatory1 == msr.IA32_VMX_CR0_FIXED0 \subseteq cr0
Cr4Mandatory1 == msr.IA32_VMX_CR4_FIXED0 \subseteq cr4
Cr0Mandatory0 == cr0 \ msr.IA32_VMX_CR0_FIXED1 = {}
Cr4Mandatory0 == cr4 \ msr.IA32_VMX_CR4_FIXED1 = {}

\* C1 as stated: both conjuncts for every FIXED0/FIXED1 pair.
C1_AllMaskPairs ==
    Adjusted => Cr0Mandatory1 /\ Cr0Mandatory0 /\ Cr4Mandatory1 /\ Cr4Mandatory0

\* C1 amended: no bit outside FIXED1 survives for every pair; the FIXED0 bits
\* are all set for every pair whose FIXED0 lies within FIXED1 and within the
\* bits the Cr0 (Cr4) flags type defines.
C1_Adjust ==
    Adjusted =>
        /\ Cr0Mandatory0
        /\ Cr4Mandatory0
        /\ (msr.IA32_VMX_CR0_FIXED0 \subseteq
                (msr.IA32_VMX_CR0_FIXED1 \cap Cr0Flags) => Cr0Mandatory1)
        /\ (msr.IA32_VMX_CR4_FIXED0 \subseteq
                (msr.IA32_VMX_CR4_FIXED1 \cap Cr4Flags) => Cr4Mandatory1)

\* An adjustment that had to force a CR4 bit on and keep a CR0 bit off.
C1_Witness ==
    /\ Adjusted
    /\ msr.IA32_VMX_CR4_FIXED0 = {CR4_ENABLE_VMX}
    /\ msr.IA32_VMX_CR4_FIXED1 = {CR4_ENABLE_VMX}
    /\ cr4 = {CR4_ENABLE_VMX}
    /\ msr.IA32_VMX_CR0_FIXED0 = {5}
    /\ msr.IA32_VMX_CR0_FIXED1 = {5}
    /\ cr0 = {5}

(***************************************************************************)
(* Enabling VMX operation (vmm.rs 84-115).                                 *)
(***************************************************************************)
\* A plausible slip: the firmware-lock test reads the wrong permission bit
\* (bit 1, VMXON inside SMX).
set_lock_bit_wrong_bit(m) ==
    LET ia32_feature_control == m.IA32_FEATURE_CONTROL
    IN  IF VMX_LOCK_BIT \notin ia32_feature_control
        THEN [ret |-> "Ok",
              wrmsr |-> <<{VMXON_OUTSIDE_SMX, VMX_LOCK_BIT}
                            \cup ia32_feature_control>>]
        ELSE IF 1 \notin ia32_feature_control
        THEN [ret |-> "VMXBIOSLock", wrmsr |-> <<>>]
        ELSE [ret |-> "Ok", wrmsr |-> <<>>]

\* A plausible slip: the write drops the bits that were already set.
set_lock_bit_clobber(m) ==
    LET ia32_feature_control == m.IA32_FEATURE_CONTROL
    IN  IF VMX_LOCK_BIT \notin ia32_feature_control
        THEN [ret |-> "Ok", wrmsr |-> <<{VMXON_OUTSIDE_SMX, VMX_LOCK_BIT}>>]
        ELSE IF VMXON_OUTSIDE_SMX \notin ia32_feature_control
        THEN [ret |-> "VMXBIOSLock", wrmsr |-> <<>>]
        ELSE [ret |-> "Ok", wrmsr |-> <<>>]

\* A plausible slip: the write is issued whenever the call succeeds.
set_lock_bit_rewrite(m) ==
    LET ia32_feature_control == m.IA32_FEATURE_CONTROL
    IN  IF VMX_LOCK_BIT \in ia32_feature_control
            /\ VMXON_OUTSIDE_SMX \notin ia32_feature_control
        THEN [ret |-> "VMXBIOSLock", wrmsr |-> <<>>]
        ELSE [ret |-> "Ok",
              wrmsr |-> <<{VMXON_OUTSIDE_SMX, VMX_LOCK_BIT}
                            \cup ia32_feature_control>>]

\* Vmm::set_lock_bit: its result and the values it writes, in order, to
\* IA32_FEATURE_CONTROL.
set_lock_bit(m) ==
    LET ia32_feature_control == m.IA32_FEATURE_CONTROL
    IN  IF VMX_LOCK_BIT \notin ia32_feature_control
        THEN [ret |-> "Ok",
              wrmsr |-> <<{VMXON_OUTSIDE_SMX, VMX_LOCK_BIT}
                            \cup ia32_feature_control>>]
        ELSE IF VMXON_OUTSIDE_SMX \notin ia32_feature_control
        THEN [ret |-> "VMXBIOSLock", wrmsr |-> <<>>]
        ELSE [ret |-> "Ok", wrmsr |-> <<>>]

\* wrmsr(IA32_FEATURE_CONTROL, v) for each written value, in order.
wrmsr_feature_control(m, writes) ==
    IF writes = <<>> THEN m
    ELSE [m EXCEPT !.IA32_FEATURE_CONTROL = writes[Len(writes)]]

\* A plausible slip: the lock check runs before CR4.VMXE is set.
cr4_after_enable_lock_first(hw_cr4, lock) ==
    IF lock.ret = "Ok"
    THEN Cr4_from_bits_truncate(hw_cr4) \cup {CR4_ENABLE_VMX}
    ELSE hw_cr4

\* CR4 as enable_vmx_operation leaves it: read, CR4_ENABLE_VMX set, written
\* back, whatever the lock check (second argument) then answers.
cr4_after_enable(hw_cr4, lock) ==
    Cr4_from_bits_truncate(hw_cr4) \cup {CR4_ENABLE_VMX}

\* A call of the private set_lock_bit alone.
SetLockBit ==
    LET r == set_lock_bit(msr)
    IN  /\ msr' = wrmsr_feature_control(msr, r.wrmsr)
        /\ call' = [op |-> "set_lock_bit", ret |-> r.ret,
                    feature_control |-> msr.IA32_FEATURE_CONTROL,
                    wrmsr |-> r.wrmsr]
        /\ UNCHANGED <<cr0, cr4, vmx, vmm, vcpu, hist>>

\* Vmm::enable_vmx_operation: CR4.VMXE is written, then set_lock_bit runs
\* and its error is returned.  The registers it leaves and its result.
enable_vmx_operation(hw_cr4, m) ==
    LET r == set_lock_bit(m)
    IN  [cr4 |-> cr4_after_enable(hw_cr4, r),
         msr |-> wrmsr_feature_control(m, r.wrmsr),
         ret |-> r.ret, wrmsr |-> r.wrmsr]

\* A call of Vmm::enable_vmx_operation.
EnableVmxOperation ==
    LET r == enable_vmx_operation(cr4, msr)
    IN  /\ cr4' = r.cr4
        /\ msr' = r.msr
        /\ call' = [op |-> "enable_vmx_operation", ret |-> r.ret,
                    feature_control |-> msr.IA32_FEATURE_CONTROL,
                    wrmsr |-> r.wrmsr]
        /\ UNCHANGED <<cr0, vmx, vmm, vcpu, hist>>

(***************************************************************************)
(* SpecLock: set_lock_bit and enable_vmx_operation, in any order, on every *)
(* IA32_FEATURE_CONTROL and CR4 value over the probed bits.                *)
(***************************************************************************)
\* The fixed-bit MSRs of a processor with VT-x: CR0 needs PE, NE and PG,
\* CR4 needs VMXE, and every defined bit may be set.
TypicalFixed(fc) ==
    [IA32_FEATURE_CONTROL |-> fc, IA32_VMX_BASIC |-> {0},
     IA32_VMX_CR0_FIXED0 |-> {0, 5, 31}, IA32_VMX_CR0_FIXED1 |-> 0..31,
     IA32_VMX_CR4_FIXED0 |-> {CR4_ENABLE_VMX},
     IA32_VMX_CR4_FIXED1 |-> Cr4Flags]

InitLock ==
    /\ cr0 = {0, 4, 5, 16, 31}
    /\ cr4 \in SUBSET Cr4Probe
    /\ \E fc \in SUBSET FcProbe : msr = TypicalFixed(fc)
    /\ vmx = VmxOff
    /\ vmm = [vcpu_table |-> <<>>, processor_count |-> 1]
    /\ vcpu = Vcpu_new_index(0)
    /\ hist = NoHistory
    /\ call = NoCall

NextLock == SetLockBit \/ EnableVmxOperation

SpecLock == InitLock /\ [][NextLock]_vars

Locked(fc) == VMX_LOCK_BIT \in fc
OutsideSmx(fc) == VMXON_OUTSIDE_SMX \in fc
RanSetLockBit == call.op \in {"set_lock_bit", "enable_vmx_operation"}

(***************************************************************************)
(* C2.  set_lock_bit returns VMXBIOSLock whenever IA32_FEATURE_CONTROL has *)
(* the lock bit set and the outside-SMX bit clear, whatever the other bits *)
(* are, and then writes nothing: IA32_FEATURE_CONTROL is unchanged.        *)
(***************************************************************************)
C2_FirmwareLock ==
    (RanSetLockBit /\ Locked(call.feature_control)
        /\ ~OutsideSmx(call.feature_control)) =>
        /\ call.ret = "VMXBIOSLock"
        /\ call.wrmsr = <<>>
        /\ msr.IA32_FEATURE_CONTROL = call.feature_control

\* The firmware lock met with another bit of the MSR set.
C2_Witness ==
    /\ call.op = "set_lock_bit"
    /\ call.feature_control = {VMX_LOCK_BIT, 1}
    /\ call.ret = "VMXBIOSLock"

(***************************************************************************)
(* C3.  set_lock_bit on an IA32_FEATURE_CONTROL with the lock bit clear    *)
(* issues exactly one write, of feature_control | lock | outside_smx, and  *)
(* returns success.                                                        *)
(***************************************************************************)
C3_WriteWhenUnlocked ==
    (RanSetLockBit /\ ~Locked(call.feature_control)) =>
        /\ call.ret = "Ok"
        /\ call.wrmsr = <<call.feature_control
                            \cup {VMX_LOCK_BIT, VMXON_OUTSIDE_SMX}>>
        /\ msr.IA32_FEATURE_CONTROL =
                call.feature_control \cup {VMX_LOCK_BIT, VMXON_OUTSIDE_SMX}

\* An unlocked MSR with another bit set, which the write preserved.
C3_Witness ==
    /\ call.op = "set_lock_bit"
    /\ call.feature_control = {1, 20}
    /\ msr.IA32_FEATURE_CONTROL = {VMX_LOCK_BIT, 1, VMXON_OUTSIDE_SMX, 20}

(***************************************************************************)
(* C4.  set_lock_bit is idempotent: with the lock bit and the outside-SMX  *)
(* bit both set it writes nothing and succeeds, so a set_lock_bit that     *)
(* follows a successful set_lock_bit leaves IA32_FEATURE_CONTROL unchanged *)
(* and succeeds too.                                                       *)
(***************************************************************************)
C4_NoWriteWhenEnabled ==
    (RanSetLockBit /\ Locked(call.feature_control)
        /\ OutsideSmx(call.feature_control)) =>
        /\ call.ret = "Ok"
        /\ call.wrmsr = <<>>
        /\ msr.IA32_FEATURE_CONTROL = call.feature_control

C4_SecondCall ==
    (RanSetLockBit /\ call.ret = "Ok" /\ RanSetLockBit') =>
        /\ call'.ret = "Ok"
        /\ call'.wrmsr = <<>>
        /\ msr' = msr

C4_Idempotent == [](C4_NoWriteWhenEnabled) /\ [][C4_SecondCall]_vars

\* A set_lock_bit that found both bits set by an earlier, writing, call.
C4_Witness ==
    /\ call.op = "set_lock_bit"
    /\ call.feature_control = {VMX_LOCK_BIT, VMXON_OUTSIDE_SMX, 20}
    /\ call.ret = "Ok"
    /\ call.wrmsr = <<>>

(***************************************************************************)
(* The VMX instructions behind Support::vmxon, vmptrld, vmlaunch, vmxoff.  *)
(* Each is executed and reports success or failure; it may fail at any     *)
(* time and can succeed only where the architecture allows it (Intel       *)
(* Manual 24.7, 31.x): VMXON needs CR4.VMXE, the locked outside-SMX        *)
(* permission and a processor not yet in VMX operation; the others need    *)
(* VMX operation, VMLAUNCH a current VMCS as well.  VMXOFF is the one that  *)
(* fails only for want of VMX operation (spec 4.2, devirtualize_cpu).      *)
(***************************************************************************)
CanVmxon(hw_cr4, m, v) ==
    /\ CR4_ENABLE_VMX \in hw_cr4
    /\ {VMX_LOCK_BIT, VMXON_OUTSIDE_SMX} \subseteq m.IA32_FEATURE_CONTROL
    /\ ~v.root
CanVmptrld(v) == v.root
CanVmlaunch(v) == v.root /\ v.current_vmcs # 0
CanVmxoff(v) == v.root

\* The VMX state after an instruction, given whether it succeeded.
vmxon(v, pa, ok) == IF ok THEN [v EXCEPT !.root = TRUE] ELSE v
vmptrld(v, pa, ok) == IF ok THEN [v EXCEPT !.current_vmcs = pa] ELSE v
vmlaunch(v, ok) == IF ok THEN [v EXCEPT !.launched = TRUE] ELSE v
vmxoff(v, ok) == IF ok THEN VmxOff ELSE v

\* Support::get_vmcs_revision_id: the revision identifier the processor
\* reports (IA32_VMX_BASIC), as a 32-bit value.
get_vmcs_revision_id(m) == m.IA32_VMX_BASIC

(***************************************************************************)
(* The Vmm and its table (vmm.rs 10-82).  The table entries are the Vcpu   *)
(* as vmm.rs indexes it: three regions with their cached addresses.        *)
(***************************************************************************)
\* A table entry as constructed: zeroed regions, no address resolved.
Vcpu_new ==
    [msr_bitmap_physical_address |-> 0,
     vmxon_physical_address |-> 0,
     vmcs_physical_address |-> 0,
     vmxon |-> [revision_id |-> {}],
     vmcs |-> [revision_id |-> {}]]

\* Vmm::new with the processor count the enumeration service reports.
Vmm_new(count) == [vcpu_table |-> <<>>, processor_count |-> count]

\* The table indexes vmm.rs may use: 0 .. len - 1 (vcpu_table[index] panics
\* on any other).
Indexes == {i \in 0..(MaxVcpus - 1) : i < Len(vmm.vcpu_table)}

\* vcpu_table[index] with Rust's 0-based index.
Entry(index) == vmm.vcpu_table[index + 1]

\* self.vcpu_table[index] = e
WithEntry(index, e) == [vmm EXCEPT !.vcpu_table[index + 1] = e]

\* The Vcpu that init_vcpu pushes, with the index its constructor was given
\* (vcpu.rs 17-24) and the regions vmm.rs reaches through the table.
Vcpu_new_entry(index) == [index |-> index] @@ Vcpu_new

\* Vcpu::id
id(v) == v.index

\* Vmm::init_vcpu: push a constructed Vcpu.  Line 25 calls Vcpu::new()
\* without the index that the constructor of vcpu.rs stores, and nothing
\* in init_vcpu reads the length of the table or processor_count: the index
\* of the pushed Vcpu is whatever the constructor comes to be given.
init_vcpu(index) ==
    /\ vmm' = [vmm EXCEPT !.vcpu_table = Append(@, Vcpu_new_entry(index))]
    /\ call' = [op |-> "init_vcpu", ret |-> "Ok",
                len |-> Len(vmm.vcpu_table)]
    /\ UNCHANGED <<cr0, cr4, msr, vmx, vcpu, hist>>

\* init_vcpu for the processor the region operations then work on.
InitVcpuEntry ==
    /\ Len(vmm.vcpu_table) < MaxVcpus
    /\ init_vcpu(0)

\* A plausible slip: the address is not tested before it is used.
translation_failed_never(pa) == FALSE

\* The test init_msr_bitmap, init_vmxon and init_vmcs make of the address.
translation_failed(pa) == pa = 0

\* Vmm::init_msr_bitmap(index), the translation answering pa.
init_msr_bitmap(index, pa) ==
    /\ vmm' = WithEntry(index,
                [Entry(index) EXCEPT !.msr_bitmap_physical_address = pa])
    /\ call' = [op |-> "init_msr_bitmap", index |-> index, pa |-> pa,
                ret |-> IF translation_failed(pa)
                        THEN "VirtualToPhysicalAddressFailed" ELSE "Ok",
                instrs |-> <<>>]
    /\ UNCHANGED <<cr0, cr4, msr, vmx, vcpu, hist>>

\* A plausible slip: bit 31 of the revision identifier is left as reported.
stamp_revision_id_raw(raw) == raw

\* The header value init_vmxon and init_vmcs write: the reported revision
\* identifier, then set_bit(31, false).
stamp_revision_id(raw) == raw \ {SHADOW_VMCS_BIT}

\* Vmm::init_vmxon(index), the translation answering pa and VMXON ending ok.
init_vmxon(index, pa, ok) ==
    LET e1 == [Entry(index) EXCEPT !.vmxon_physical_address = pa]
        e2 == [e1 EXCEPT !.vmxon.revision_id =
                    stamp_revision_id(get_vmcs_revision_id(msr))]
    IN  IF translation_failed(pa)
        THEN /\ ok
             /\ vmm' = WithEntry(index, e1)
             /\ call' = [op |-> "init_vmxon", index |-> index, pa |-> pa,
                         ret |-> "VirtualToPhysicalAddressFailed",
                         instrs |-> <<>>]
             /\ UNCHANGED <<cr0, cr4, msr, vmx, vcpu, hist>>
        ELSE /\ ok => CanVmxon(cr4, msr, vmx)
             /\ vmm' = WithEntry(index, e2)
             /\ vmx' = vmxon(vmx, e2.vmxon_physical_address, ok)
             /\ call' = [op |-> "init_vmxon", index |-> index, pa |-> pa,
                         ret |-> IF ok THEN "Ok" ELSE "VMXONFailed",
                         instrs |-> <<[name |-> "VMXON",
                                       pa |-> e2.vmxon_physical_address,
                                       revision_id |-> e2.vmxon.revision_id]>>]
             /\ UNCHANGED <<cr0, cr4, msr, vcpu, hist>>

\* Vmm::init_vmcs(index), the translation answering pa and VMPTRLD ending ok.
init_vmcs(index, pa, ok) ==
    LET e1 == [Entry(index) EXCEPT !.vmcs_physical_address = pa]
        e2 == [e1 EXCEPT !.vmcs.revision_id =
                    stamp_revision_id(get_vmcs_revision_id(msr))]
    IN  IF translation_failed(pa)
        THEN /\ ok
             /\ vmm' = WithEntry(index, e1)
             /\ call' = [op |-> "init_vmcs", index |-> index, pa |-> pa,
                         ret |-> "VirtualToPhysicalAddressFailed",
                         instrs |-> <<>>]
             /\ UNCHANGED <<cr0, cr4, msr, vmx, vcpu, hist>>
        ELSE /\ ok => CanVmptrld(vmx)
             /\ vmm' = WithEntry(index, e2)
             /\ vmx' = vmptrld(vmx, e2.vmcs_physical_address, ok)
             /\ call' = [op |-> "init_vmcs", index |-> index, pa |-> pa,
                         ret |-> IF ok THEN "Ok" ELSE "VMPTRLDFailed",
                         instrs |-> <<[name |-> "VMPTRLD",
                                       pa |-> e2.vmcs_physical_address,
                                       revision_id |-> e2.vmcs.revision_id]>>]
             /\ UNCHANGED <<cr0, cr4, msr, vcpu, hist>>

InitMsrBitmap == \E index \in Indexes, pa \in PhysicalAddresses :
    init_msr_bitmap(index, pa)
InitVmxon == \E index \in Indexes, pa \in PhysicalAddresses, ok \in BOOLEAN :
    init_vmxon(index, pa, ok)
InitVmcs == \E index \in Indexes, pa \in PhysicalAddresses, ok \in BOOLEAN :
    init_vmcs(index, pa, ok)

(***************************************************************************)
(* Spec: the operations of the Vmm, called in any order on any entry of    *)
(* the table, on a processor whose firmware left IA32_FEATURE_CONTROL      *)
(* unlocked.                                                               *)
(***************************************************************************)
Init ==
    /\ cr0 = {0, 4, 5, 16, 31}
    /\ cr4 = {5}
    /\ \E raw \in SUBSET RevProbe :
            msr = [TypicalFixed({}) EXCEPT !.IA32_VMX_BASIC = raw]
    /\ vmx = VmxOff
    /\ vmm = Vmm_new(1)
    /\ vcpu = Vcpu_new_index(0)
    /\ hist = NoHistory
    /\ call = NoCall

Next ==
    \/ InitVcpuEntry
    \/ InitMsrBitmap
    \/ InitVmxon
    \/ InitVmcs
    \/ EnableVmxOperation
    \/ AdjustControlRegisters

Spec == Init /\ [][Next]_vars

RegionOps == {"init_msr_bitmap", "init_vmxon", "init_vmcs"}

(***************************************************************************)
(* C5.  When the translation answers 0 for the MSR bitmap, the VMXON       *)
(* region or the VMCS region, the init operation returns                   *)
(* VirtualToPhysicalAddressFailed and executes no VMXON or VMPTRLD.        *)
(***************************************************************************)
C5_ZeroAddress ==
    (call.op \in RegionOps /\ call.pa = 0) =>
        /\ call.ret = "VirtualToPhysicalAddressFailed"
        /\ call.instrs = <<>>

\* A failed translation of the VMCS region on a processor that is in VMX
\* operation, where VMPTRLD could have been executed.
C5_Witness ==
    /\ call.op = "init_vmcs"
    /\ call.pa = 0
    /\ call.ret = "VirtualToPhysicalAddressFailed"
    /\ vmx.root

(***************************************************************************)
(* C7.  When init_vmxon executes VMXON and init_vmcs executes VMPTRLD, the *)
(* region's revision_id is the reported revision identifier with bit 31    *)
(* cleared and the low 31 bits unchanged.                                  *)
(***************************************************************************)
Bit31Cleared(stored, raw) ==
    /\ SHADOW_VMCS_BIT \notin stored
    /\ stored \cup {SHADOW_VMCS_BIT} = raw \cup {SHADOW_VMCS_BIT}

C7_RevisionId ==
    (call.op \in {"init_vmxon", "init_vmcs"}) =>
        \A i \in 1..Len(call.instrs) :
            /\ Bit31Cleared(call.instrs[i].revision_id,
                            get_vmcs_revision_id(msr))
            /\ call.op = "init_vmxon" =>
                 Entry(call.index).vmxon.revision_id
                    = call.instrs[i].revision_id
            /\ call.op = "init_vmcs" =>
                 Entry(call.index).vmcs.revision_id
                    = call.instrs[i].revision_id

\* VMXON executed on a region stamped from a revision identifier that was
\* reported with bit 31 set.
C7_Witness ==
    /\ call.op = "init_vmxon"
    /\ Len(call.instrs) = 1
    /\ call.instrs[1].name = "VMXON"
    /\ get_vmcs_revision_id(msr) = {0, SHADOW_VMCS_BIT}
    /\ call.instrs[1].revision_id = {0}

(***************************************************************************)
(* SpecTable: Vmm::new for every processor count up to MaxProcessors, then *)
(* init_vcpu called any number of times (MaxTable cuts the exploration     *)
(* off, the code has no limit), the constructor given any index up to      *)
(* MaxIndex.                                                               *)
(***************************************************************************)
InitTable ==
    /\ cr0 = {0, 4, 5, 16, 31}
    /\ cr4 = {5}
    /\ msr = TypicalFixed({})
    /\ vmx = VmxOff
    /\ \E count \in 1..MaxProcessors : vmm = Vmm_new(count)
    /\ vcpu = Vcpu_new_index(0)
    /\ hist = NoHistory
    /\ call = NoCall

InitVcpuTable ==
    /\ Len(vmm.vcpu_table) < MaxTable
    /\ \E index \in 0..MaxIndex : init_vcpu(index)

NextTable == InitVcpuTable

SpecTable == InitTable /\ [][NextTable]_vars

(***************************************************************************)
(* C11.  Vmm::new produces an empty table, and after k successful          *)
(* init_vcpu calls the table holds exactly k entries whose id() values are *)
(* 0, 1, ..., k-1 in table order: slot i holds the Vcpu with index i.      *)
(***************************************************************************)
C11_TableIndices ==
    /\ call = NoCall => vmm.vcpu_table = <<>>
    /\ call.op = "init_vcpu" =>
            /\ call.ret = "Ok"
            /\ Len(vmm.vcpu_table) = call.len + 1
    /\ \A i \in 1..Len(vmm.vcpu_table) : id(vmm.vcpu_table[i]) = i - 1

(***************************************************************************)
(* C19.  After any sequence of init_vcpu calls the table never holds more  *)
(* entries than the processor_count captured by Vmm::new, and              *)
(* processor_count is never changed after construction.                    *)
(***************************************************************************)
C19_TableWithinCount == Len(vmm.vcpu_table) <= vmm.processor_count

(***************************************************************************)
(* The Vcpu (vcpu.rs): virtualize_cpu step by step, devirtualize_cpu.      *)
(* support::enable_vmx_operation and support::adjust_control_registers are *)
(* the operations of vmm.rs above.  A call record of virtualize_cpu holds  *)
(*   pc            where the call stands ("done": it has returned),        *)
(*   steps         the steps executed, each with its result,               *)
(*   instrs        the VMX instructions executed,                          *)
(*   translations  the answers of the address translation,                 *)
(*   walk          the lifecycle states the Vcpu went through,             *)
(*   entry         the registers and the OnceCell as the call found them,  *)
(*   building      the VcpuData under construction in VcpuData::new.       *)
(***************************************************************************)
Running == call.op = "virtualize_cpu" /\ call.pc # "done"
At(pc) == call.op = "virtualize_cpu" /\ call.pc = pc

\* A lifecycle transition from -> to; any other state stays.
Advance(state, from, to) == IF state = from THEN to ELSE state

\* The call record once the Vcpu is in lifecycle state st.
Walked(c, st) ==
    IF c.walk[Len(c.walk)] = st THEN c ELSE [c EXCEPT !.walk = Append(@, st)]

\* A plausible slip: a `?` is missing and the step's error is dropped.
virtualize_cpu_continue_unchecked(c, name, result, next) ==
    LET c1 == [c EXCEPT !.steps = Append(@, [name |-> name,
                                              result |-> result])]
    IN  IF next = "done" THEN [c1 EXCEPT !.pc = "done", !.ret = "Ok"]
        ELSE [c1 EXCEPT !.pc = next]

\* A plausible slip: virtualize_cpu returns Ok without the VMLAUNCH step.
virtualize_cpu_continue_no_launch(c, name, result, next) ==
    LET c1 == [c EXCEPT !.steps = Append(@, [name |-> name,
                                              result |-> result])]
    IN  IF result # "Ok" THEN [c1 EXCEPT !.pc = "done", !.ret = result]
        ELSE IF next \in {"done", "launch"}
        THEN [c1 EXCEPT !.pc = "done", !.ret = "Ok"]
        ELSE [c1 EXCEPT !.pc = next]

\* A plausible slip: an error path that undoes VMX operation, executing
\* VMXOFF before the error is returned.
virtualize_cpu_continue_vmxoff(c, name, result, next) ==
    LET c1 == [c EXCEPT !.steps = Append(@, [name |-> name,
                                              result |-> result])]
    IN  IF result # "Ok"
        THEN [c1 EXCEPT !.pc = "done", !.ret = result,
                        !.instrs = Append(@, [name |-> "VMXOFF", pa |-> 0,
                                              revision_id |-> {},
                                              ok |-> TRUE])]
        ELSE IF next = "done" THEN [c1 EXCEPT !.pc = "done", !.ret = "Ok"]
        ELSE [c1 EXCEPT !.pc = next]

\* The `?` of virtualize_cpu: a step that ended with an error returns it
\* from the call; otherwise the call goes on at next, and returns Ok after
\* the last step.
virtualize_cpu_continue(c, name, result, next) ==
    LET c1 == [c EXCEPT !.steps = Append(@, [name |-> name,
                                              result |-> result])]
    IN  IF result # "Ok" THEN [c1 EXCEPT !.pc = "done", !.ret = result]
        ELSE IF next = "done" THEN [c1 EXCEPT !.pc = "done", !.ret = "Ok"]
        ELSE [c1 EXCEPT !.pc = next]

\* virtualize_cpu is called.
virtualize_cpu_call ==
    /\ ~Running
    /\ hist.calls < MaxCalls
    /\ call' = [op |-> "virtualize_cpu", pc |-> "enable", ret |-> "running",
                steps |-> <<>>, instrs |-> <<>>, translations |-> <<>>,
                walk |-> <<hist.state>>,
                entry |-> [cr0 |-> cr0, cr4 |-> cr4, msr |-> msr,
                           vmx |-> vmx, data |-> vcpu.data,
                           init_started |-> hist.init_started],
                building |-> <<>>]
    /\ hist' = [hist EXCEPT !.calls = @ + 1]
    /\ UNCHANGED <<cr0, cr4, msr, vmx, vmm, vcpu>>

\* support::enable_vmx_operation()?
virtualize_cpu_enable ==
    /\ At("enable")
    /\ LET r == enable_vmx_operation(cr4, msr)
           st == IF r.ret = "Ok"
                 THEN Advance(hist.state, "NotVirtualized", "VmxEnabled")
                 ELSE hist.state
       IN  /\ cr4' = r.cr4
           /\ msr' = r.msr
           /\ hist' = [hist EXCEPT !.state = st]
           /\ call' = Walked(virtualize_cpu_continue(call,
                                "enable_vmx_operation", r.ret, "adjust"), st)
    /\ UNCHANGED <<cr0, vmx, vmm, vcpu>>

\* support::adjust_control_registers()
virtualize_cpu_adjust ==
    /\ At("adjust")
    /\ LET r == adjust_control_registers(cr0, cr4, msr)
       IN  /\ cr0' = r.cr0
           /\ cr4' = r.cr4
    /\ call' = virtualize_cpu_continue(call, "adjust_control_registers",
                                       "Ok", "data")
    /\ UNCHANGED <<msr, vmx, vmm, vcpu, hist>>

\* A plausible slip: VcpuData::new is called whatever the cell holds.
runs_closure_always(cell) == TRUE

\* Whether get_or_try_init runs its closure: only on an empty cell.
runs_closure(cell) == cell = <<>>

\* OnceCell::get_or_try_init: a full cell is returned as it is and the
\* closure does not run; on an empty cell the closure VcpuData::new runs.
virtualize_cpu_data ==
    /\ At("data")
    /\ IF ~runs_closure(vcpu.data)
       THEN /\ call' = virtualize_cpu_continue(call, "get_or_try_init",
                                               "Ok", "launch")
            /\ UNCHANGED hist
       ELSE LET st == Advance(hist.state, "VmxEnabled", "RegionsReady")
            IN  /\ call' = Walked([call EXCEPT !.pc = "new_msr_bitmap",
                                               !.building = <<Vcpu_new>>], st)
                /\ hist' = [hist EXCEPT !.init_started = @ + 1,
                                        !.state = st]
    /\ UNCHANGED <<cr0, cr4, msr, vmx, vmm, vcpu>>

\* A plausible slip: the cell takes the VcpuData whatever VcpuData::new
\* answered, so a failed construction leaves its partial result behind.
get_or_try_init_store_always(cell, result, value) ==
    IF cell = <<>> THEN <<value>> ELSE cell

\* What the cell holds once its closure has returned: get_or_try_init
\* stores the value only when the closure answered Ok, and hands an error
\* on with the cell as it was.
get_or_try_init_store(cell, result, value) ==
    IF result = "Ok" /\ cell = <<>> THEN <<value>> ELSE cell

\* What get_or_try_init answers when its closure answered Ok: it panics
\* ("reentrant init") when the cell was filled while the closure ran.
get_or_try_init_result(cell) == IF cell = <<>> THEN "Ok" ELSE "panic"

\* VcpuData::new gave up with error: the VcpuData under construction is
\* dropped and get_or_try_init hands the error on, the cell still empty.
VcpuData_new_failed(c, error) ==
    virtualize_cpu_continue([c EXCEPT !.building = <<>>],
                            "get_or_try_init", error, "launch")

\* VcpuData::new, the MSR bitmap region (as Vmm::init_msr_bitmap).
VcpuData_new_msr_bitmap ==
    /\ At("new_msr_bitmap")
    /\ \E pa \in PhysicalAddresses :
        LET b == [call.building[1] EXCEPT
                        !.msr_bitmap_physical_address = pa]
            c == [call EXCEPT !.translations = Append(@, pa),
                              !.building = <<b>>]
            error == "VirtualToPhysicalAddressFailed"
        IN  IF translation_failed(pa)
            THEN /\ call' = VcpuData_new_failed(c, error)
                 /\ vcpu' = [vcpu EXCEPT !.data =
                                get_or_try_init_store(@, error, b)]
            ELSE /\ call' = [c EXCEPT !.pc = "new_vmxon"]
                 /\ UNCHANGED vcpu
    /\ UNCHANGED <<cr0, cr4, msr, vmx, vmm, hist>>

\* VcpuData::new, the VMXON region (as Vmm::init_vmxon).
VcpuData_new_vmxon ==
    /\ At("new_vmxon")
    /\ \E pa \in PhysicalAddresses, ok \in BOOLEAN :
        LET b1 == [call.building[1] EXCEPT !.vmxon_physical_address = pa]
            b2 == [b1 EXCEPT !.vmxon.revision_id =
                        stamp_revision_id(get_vmcs_revision_id(msr))]
            c1 == [call EXCEPT !.translations = Append(@, pa),
                               !.building = <<b1>>]
            c2 == [c1 EXCEPT !.building = <<b2>>,
                             !.instrs = Append(@,
                                [name |-> "VMXON", pa |-> pa,
                                 revision_id |-> b2.vmxon.revision_id,
                                 ok |-> ok])]
            st == Advance(hist.state, "RegionsReady", "VmxonDone")
        IN  IF translation_failed(pa)
            THEN /\ ok
                 /\ call' = VcpuData_new_failed(c1,
                                "VirtualToPhysicalAddressFailed")
                 /\ vcpu' = [vcpu EXCEPT !.data = get_or_try_init_store(@,
                                "VirtualToPhysicalAddressFailed", b1)]
                 /\ UNCHANGED <<vmx, hist>>
            ELSE /\ ok => CanVmxon(cr4, msr, vmx)
                 /\ vmx' = vmxon(vmx, pa, ok)
                 /\ IF ok
                    THEN /\ call' = Walked([c2 EXCEPT !.pc = "new_vmcs"], st)
                         /\ hist' = [hist EXCEPT !.state = st]
                         /\ UNCHANGED vcpu
                    ELSE /\ call' = VcpuData_new_failed(c2, "VMXONFailed")
                         /\ vcpu' = [vcpu EXCEPT !.data =
                                get_or_try_init_store(@, "VMXONFailed", b2)]
                         /\ UNCHANGED hist
    /\ UNCHANGED <<cr0, cr4, msr, vmm>>

\* VcpuData::new, the VMCS region (as Vmm::init_vmcs); on success the
\* VcpuData is complete and get_or_try_init stores it in the cell.
VcpuData_new_vmcs ==
    /\ At("new_vmcs")
    /\ \E pa \in PhysicalAddresses, ok \in BOOLEAN :
        LET b1 == [call.building[1] EXCEPT !.vmcs_physical_address = pa]
            b2 == [b1 EXCEPT !.vmcs.revision_id =
                        stamp_revision_id(get_vmcs_revision_id(msr))]
            c1 == [call EXCEPT !.translations = Append(@, pa),
                               !.building = <<b1>>]
            c2 == [c1 EXCEPT !.building = <<>>,
                             !.instrs = Append(@,
                                [name |-> "VMPTRLD", pa |-> pa,
                                 revision_id |-> b2.vmcs.revision_id,
                                 ok |-> ok])]
            st == Advance(hist.state, "VmxonDone", "VmcsLoaded")
        IN  IF translation_failed(pa)
            THEN /\ ok
                 /\ call' = VcpuData_new_failed(c1,
                                "VirtualToPhysicalAddressFailed")
                 /\ vcpu' = [vcpu EXCEPT !.data = get_or_try_init_store(@,
                                "VirtualToPhysicalAddressFailed", b1)]
                 /\ UNCHANGED <<vmx, hist>>
            ELSE /\ ok => CanVmptrld(vmx)
                 /\ vmx' = vmptrld(vmx, pa, ok)
                 /\ IF ok
                    THEN /\ vcpu' = [vcpu EXCEPT !.data =
                                get_or_try_init_store(@, "Ok", b2)]
                         /\ hist' = [hist EXCEPT
                                !.init_ok = IF vcpu.data = <<>>
                                            THEN @ + 1 ELSE @,
                                !.state = st]
                         /\ call' = Walked(virtualize_cpu_continue(c2,
                                        "get_or_try_init",
                                        get_or_try_init_result(vcpu.data),
                                        "launch"), st)
                    ELSE /\ call' = VcpuData_new_failed(c2, "VMPTRLDFailed")
                         /\ vcpu' = [vcpu EXCEPT !.data =
                                get_or_try_init_store(@, "VMPTRLDFailed", b2)]
                         /\ UNCHANGED hist
    /\ UNCHANGED <<cr0, cr4, msr, vmm>>

\* support::vmlaunch()?, then Ok(()).
virtualize_cpu_vmlaunch ==
    /\ At("launch")
    /\ \E ok \in BOOLEAN :
        LET c == [call EXCEPT !.instrs = Append(@,
                        [name |-> "VMLAUNCH", pa |-> vmx.current_vmcs,
                         revision_id |-> {}, ok |-> ok])]
            st == IF ok THEN Advance(hist.state, "VmcsLoaded", "Launched")
                  ELSE hist.state
        IN  /\ ok => CanVmlaunch(vmx)
            /\ vmx' = vmlaunch(vmx, ok)
            /\ hist' = [hist EXCEPT !.state = st]
            /\ call' = Walked(virtualize_cpu_continue(c, "vmlaunch",
                                IF ok THEN "Ok" ELSE "VMLAUNCHFailed",
                                "done"), st)
    /\ UNCHANGED <<cr0, cr4, msr, vmm, vcpu>>

\* A plausible slip: the error of VMXOFF is dropped and Ok(()) returned.
devirtualize_cpu_result_masked(ok) == "Ok"

\* support::vmxoff()?; Ok(()): the error of VMXOFF is returned.
devirtualize_cpu_result(ok) == IF ok THEN "Ok" ELSE "VMXOFFFailed"

\* Vcpu::devirtualize_cpu: support::vmxoff()?, then Ok(()).  VMXOFF leaves
\* VMX operation when the processor is in it and fails when it is not.
devirtualize_cpu ==
    /\ ~Running
    /\ hist.calls < MaxCalls
    /\ LET ok == CanVmxoff(vmx)
           result == devirtualize_cpu_result(ok)
       IN  /\ vmx' = vmxoff(vmx, ok)
           /\ hist' = [hist EXCEPT !.calls = @ + 1,
                                   !.state = IF ok THEN "NotVirtualized"
                                             ELSE @]
           /\ call' = [op |-> "devirtualize_cpu", pc |-> "done",
                       ret |-> result,
                       instrs |-> <<[name |-> "VMXOFF", pa |-> 0,
                                     revision_id |-> {}, ok |-> ok]>>,
                       entry |-> [vmx |-> vmx, state |-> hist.state]]
    /\ UNCHANGED <<cr0, cr4, msr, vmm, vcpu>>

(***************************************************************************)
(* SpecVcpu: calls of virtualize_cpu and devirtualize_cpu on one Vcpu, on  *)
(* its own logical processor, for every firmware setting of the lock and   *)
(* outside-SMX bits, with CR4.VMXE clear or set at the start, and for the  *)
(* CR4 fixed-bit MSRs of a VT-x processor or any pair over the probed bits.*)
(***************************************************************************)
FirmwareSettings == SUBSET {VMX_LOCK_BIT, VMXON_OUTSIDE_SMX}

InitVcpu ==
    /\ cr0 = {0, 4, 5, 16, 31}
    /\ cr4 \in {{5}, {5, CR4_ENABLE_VMX}}
    /\ \E fc \in FirmwareSettings, f0 \in SUBSET Cr4Probe,
          f1 \in {Cr4Flags} \cup SUBSET Cr4Probe :
            msr = [TypicalFixed(fc) EXCEPT !.IA32_VMX_CR4_FIXED0 = f0,
                                           !.IA32_VMX_CR4_FIXED1 = f1]
    /\ vmx = VmxOff
    /\ vmm = Vmm_new(1)
    /\ vcpu = Vcpu_new_index(0)
    /\ call = NoCall
    /\ hist = NoHistory

NextVcpu ==
    \/ virtualize_cpu_call
    \/ virtualize_cpu_enable
    \/ virtualize_cpu_adjust
    \/ virtualize_cpu_data
    \/ VcpuData_new_msr_bitmap
    \/ VcpuData_new_vmxon
    \/ VcpuData_new_vmcs
    \/ virtualize_cpu_vmlaunch
    \/ devirtualize_cpu

SpecVcpu == InitVcpu /\ [][NextVcpu]_vars

StepNames(c) == [i \in 1..Len(c.steps) |-> c.steps[i].name]
VirtualizeSteps ==
    <<"enable_vmx_operation", "adjust_control_registers",
      "get_or_try_init", "vmlaunch">>
RegionSetup(c) ==
    \/ c.translations # <<>>
    \/ c.building # <<>>
    \/ \E i \in 1..Len(c.instrs) : c.instrs[i].name \in {"VMXON", "VMPTRLD"}

(***************************************************************************)
(* C6.  VcpuData initialization executes at most once per Vcpu over any    *)
(* sequence of virtualize_cpu calls; a call on a Vcpu whose VcpuData is    *)
(* initialized reuses the regions, runs no region setup and executes no    *)
(* VMXON or VMPTRLD.                                                       *)
(***************************************************************************)
\* C6 as stated: the initialization body never starts a second time.
C6_BodyAtMostOnce == hist.init_started <= 1

\* C6 amended: the initialization completes at most once, and never starts
\* in a call that found the VcpuData initialized; such a call keeps the
\* regions and does no region setup.  (After a failed initialization the
\* cell is empty and the next call runs the body again.)
C6_InitOnce ==
    /\ hist.init_ok <= 1
    /\ (call.op = "virtualize_cpu" /\ call.entry.data # <<>>) =>
        /\ ~RegionSetup(call)
        /\ vcpu.data = call.entry.data
        /\ hist.init_started = call.entry.init_started

\* A second virtualize_cpu that found the VcpuData initialized and went on
\* to VMLAUNCH.
C6_Witness ==
    /\ call.op = "virtualize_cpu"
    /\ call.entry.data # <<>>
    /\ call.pc = "done"
    /\ StepNames(call) = VirtualizeSteps

(***************************************************************************)
(* C8.  With IA32_FEATURE_CONTROL = 0b001, enable_vmx_operation returns    *)
(* VMXBIOSLock with CR4.VMXE set (it is written before the lock check),    *)
(* and virtualize_cpu executes no further step: no CR0/CR4 adjustment, no  *)
(* VcpuData initialization, no VMXON, VMPTRLD or VMLAUNCH.                 *)
(***************************************************************************)
C8_FirmwareLockAborts ==
    (call.op = "virtualize_cpu" /\ call.pc # "enable"
        /\ call.entry.msr.IA32_FEATURE_CONTROL = {VMX_LOCK_BIT}) =>
        /\ call.pc = "done"
        /\ call.ret = "VMXBIOSLock"
        /\ call.steps = <<[name |-> "enable_vmx_operation",
                           result |-> "VMXBIOSLock"]>>
        /\ CR4_ENABLE_VMX \in cr4
        /\ cr4 = Cr4_from_bits_truncate(call.entry.cr4) \cup {CR4_ENABLE_VMX}
        /\ cr0 = call.entry.cr0
        /\ msr = call.entry.msr
        /\ call.instrs = <<>>
        /\ ~RegionSetup(call)
        /\ vcpu.data = call.entry.data
        /\ hist.init_started = call.entry.init_started
        /\ vmx = call.entry.vmx

\* The firmware lock met by a call that found CR4.VMXE clear.
C8_Witness ==
    /\ call.op = "virtualize_cpu"
    /\ call.entry.msr.IA32_FEATURE_CONTROL = {VMX_LOCK_BIT}
    /\ CR4_ENABLE_VMX \notin call.entry.cr4
    /\ call.ret = "VMXBIOSLock"
    /\ CR4_ENABLE_VMX \in cr4

(***************************************************************************)
(* C9.  A failure at any step of virtualize_cpu ends the call: no later    *)
(* step executes and the failing step's error is returned; the call        *)
(* returns Ok only when every step succeeded.                              *)
(***************************************************************************)
C9_FailureAborts ==
    call.op = "virtualize_cpu" =>
        /\ \A i \in 1..Len(call.steps) :
            call.steps[i].result # "Ok" =>
                /\ i = Len(call.steps)
                /\ call.pc = "done"
                /\ call.ret = call.steps[i].result
        /\ \A i \in 1..Len(call.instrs) :
            ~call.instrs[i].ok =>
                /\ i = Len(call.instrs)
                /\ call.pc = "done"
                /\ call.ret \notin {"Ok", "running"}
        /\ \A i \in 1..Len(call.translations) :
            call.translations[i] = 0 =>
                /\ i = Len(call.translations)
                /\ call.pc = "done"
                /\ call.ret = "VirtualToPhysicalAddressFailed"
        /\ call.ret = "Ok" =>
                /\ call.pc = "done"
                /\ StepNames(call) = VirtualizeSteps
                /\ \A i \in 1..Len(call.steps) : call.steps[i].result = "Ok"
        /\ call.pc = "done" <=> call.ret # "running"

\* A call that failed at its last step, VMLAUNCH, after three good steps.
C9_Witness ==
    /\ call.op = "virtualize_cpu"
    /\ StepNames(call) = VirtualizeSteps
    /\ call.ret = "VMLAUNCHFailed"
    /\ vcpu.data # <<>>

(***************************************************************************)
(* C10.  When the hardware always succeeds, virtualize_cpu on a fresh Vcpu *)
(* goes NotVirtualized, VmxEnabled, RegionsReady, VmxonDone, VmcsLoaded,   *)
(* Launched in that order, ends in Launched and returns no error.          *)
(***************************************************************************)
Lifecycle ==
    <<"NotVirtualized", "VmxEnabled", "RegionsReady", "VmxonDone",
      "VmcsLoaded", "Launched">>

\* Nothing the call asked of the hardware failed: the firmware had not
\* locked VMX out, every translation answered an address, every
\* instruction succeeded.
HardwareSucceeded(c) ==
    /\ ~(Locked(c.entry.msr.IA32_FEATURE_CONTROL)
            /\ ~OutsideSmx(c.entry.msr.IA32_FEATURE_CONTROL))
    /\ \A i \in 1..Len(c.translations) : c.translations[i] # 0
    /\ \A i \in 1..Len(c.instrs) : c.instrs[i].ok

C10_Walk ==
    (call.op = "virtualize_cpu" /\ hist.calls = 1
        /\ HardwareSucceeded(call)) =>
        /\ Len(call.walk) <= Len(Lifecycle)
        /\ \A i \in 1..Len(call.walk) : call.walk[i] = Lifecycle[i]
        /\ call.pc = "done" =>
            /\ call.ret = "Ok"
            /\ call.walk = Lifecycle
            /\ hist.state = "Launched"

\* The first call on a fresh Vcpu, returned, nothing having failed.
C10_Witness ==
    /\ call.op = "virtualize_cpu"
    /\ hist.calls = 1
    /\ HardwareSucceeded(call)
    /\ call.pc = "done"
    /\ hist.state = "Launched"
    /\ vmx.launched

(***************************************************************************)
(* C12.  VcpuData construction fails atomically: when a region setup of    *)
(* the initialization fails (translation, VMXON or VMPTRLD), virtualize_cpu*)
(* returns that error, the exactly-once guard is still empty and no        *)
(* partially initialized VcpuData is kept, so the next virtualize_cpu      *)
(* starts its initialization from clean regions.                           *)
(***************************************************************************)
RegionErrors ==
    {"VirtualToPhysicalAddressFailed", "VMXONFailed", "VMPTRLDFailed"}

\* The call ran VcpuData::new and a region setup in it failed.
InitFailed(c) ==
    /\ c.op = "virtualize_cpu"
    /\ \/ \E i \in 1..Len(c.translations) : c.translations[i] = 0
       \/ \E i \in 1..Len(c.instrs) :
            c.instrs[i].name \in {"VMXON", "VMPTRLD"} /\ ~c.instrs[i].ok

C12_AtomicFailure ==
    /\ InitFailed(call) =>
        /\ call.pc = "done"
        /\ call.ret \in RegionErrors
        /\ call.steps[Len(call.steps)] =
                [name |-> "get_or_try_init", result |-> call.ret]
        /\ vcpu.data = <<>>
        /\ call.building = <<>>
    /\ At("new_msr_bitmap") =>
        /\ vcpu.data = <<>>
        /\ call.building = <<Vcpu_new>>
        /\ call.translations = <<>>

\* A construction that failed at its last region, VMPTRLD, with the MSR
\* bitmap and the VMXON region already set up and VMXON executed.
C12_Witness ==
    /\ InitFailed(call)
    /\ call.ret = "VMPTRLDFailed"
    /\ Len(call.translations) = 3
    /\ vmx.root
    /\ vcpu.data = <<>>

\* The attempt that follows a failed construction, at the start of its own.
C12_WitnessRetry ==
    /\ At("new_msr_bitmap")
    /\ call.entry.init_started = 1
    /\ call.building = <<Vcpu_new>>

(***************************************************************************)
(* C13.  devirtualize_cpu executes VMXOFF and takes a processor in any     *)
(* state at or past VmxonDone (VmxonDone, VmcsLoaded, Launched) to         *)
(* NotVirtualized; on a processor that is not in VMX operation it returns  *)
(* the error of VMXOFF and leaves the lifecycle state unchanged.           *)
(***************************************************************************)
PastVmxon == {"VmxonDone", "VmcsLoaded", "Launched"}

C13_Devirtualize ==
    call.op = "devirtualize_cpu" =>
        /\ Len(call.instrs) = 1
        /\ call.instrs[1].name = "VMXOFF"
        /\ call.entry.state \in PastVmxon =>
            /\ call.ret = "Ok"
            /\ hist.state = "NotVirtualized"
            /\ vmx = VmxOff
        /\ ~call.entry.vmx.root =>
            /\ call.ret = "VMXOFFFailed"
            /\ hist.state = call.entry.state
            /\ vmx = call.entry.vmx
        /\ call.entry.vmx.root <=> call.entry.state \in PastVmxon

\* devirtualize_cpu of a launched processor.
C13_Witness ==
    /\ call.op = "devirtualize_cpu"
    /\ call.entry.state = "Launched"
    /\ call.ret = "Ok"
    /\ hist.state = "NotVirtualized"

\* devirtualize_cpu of a processor that never entered VMX operation.
C13_WitnessNeverEntered ==
    /\ call.op = "devirtualize_cpu"
    /\ hist.calls = 1
    /\ call.ret = "VMXOFFFailed"

(***************************************************************************)
(* SpecRace: two invocations on the same Vcpu, their steps interleaved in  *)
(* any order.  The Vcpu holds a core::cell::OnceCell, which has no         *)
(* synchronization: get_or_try_init reads the cell, runs the closure and   *)
(* stores the result as separate steps, and another invocation may run     *)
(* between any two of them.  hist.suspended holds the invocation that is   *)
(* not running, call the one that is.                                      *)
(***************************************************************************)
\* The running invocation is suspended and the other one goes on, or a
\* first other one is free to start.
Preempt ==
    /\ Running
    /\ call' = IF hist.suspended = <<>> THEN NoCall ELSE hist.suspended[1]
    /\ hist' = [hist EXCEPT !.suspended = <<call>>]
    /\ UNCHANGED <<cr0, cr4, msr, vmx, vmm, vcpu>>

\* The running invocation has returned and the suspended one goes on.
Resume ==
    /\ ~Running
    /\ hist.suspended # <<>>
    /\ call' = hist.suspended[1]
    /\ hist' = [hist EXCEPT !.suspended = <<>>]
    /\ UNCHANGED <<cr0, cr4, msr, vmx, vmm, vcpu>>

InitRace ==
    /\ cr0 = {0, 4, 5, 16, 31}
    /\ cr4 = {5}
    /\ \E fc \in FirmwareSettings : msr = TypicalFixed(fc)
    /\ vmx = VmxOff
    /\ vmm = Vmm_new(1)
    /\ vcpu = Vcpu_new_index(0)
    /\ call = NoCall
    /\ hist = NoHistory

NextRace == NextVcpu \/ Preempt \/ Resume

SpecRace == InitRace /\ [][NextRace]_vars

(***************************************************************************)
(* C14.  When two virtualize_cpu invocations on the same Vcpu race, the    *)
(* exactly-once guard lets only one of them execute the VcpuData           *)
(* initialization body, so VMXON and VMPTRLD run once, and the other one   *)
(* observes the result of the first.                                       *)
(***************************************************************************)
\* The invocation has executed (some of) the initialization body.
RanBody(c) == c.op = "virtualize_cpu" /\ RegionSetup(c)

C14_OneInitializer ==
    hist.suspended # <<>> =>
        ~(RanBody(call) /\ RanBody(hist.suspended[1]))

(***************************************************************************)
(* C15.  In any sequence of Vmm operations on one processor index, VMXON   *)
(* is executed only after enable_vmx_operation has succeeded and exactly   *)
(* once before any VMPTRLD, and VMPTRLD (init_vmcs) is executed only after *)
(* init_vmxon has succeeded for the same processor.                        *)
(***************************************************************************)
\* enable_vmx_operation has succeeded: Spec starts with CR4.VMXE and
\* IA32_FEATURE_CONTROL clear, only enable_vmx_operation writes the MSR and
\* a call that succeeded leaves the lock and outside-SMX bits set for good.
EnableSucceeded ==
    {VMX_LOCK_BIT, VMXON_OUTSIDE_SMX} \subseteq msr.IA32_FEATURE_CONTROL

\* init_vmxon has succeeded: only a successful VMXON of init_vmxon sets
\* vmx.root, and no operation of the Vmm leaves VMX operation.
VmxonSucceeded == vmx.root

Executed(c, name) ==
    \E i \in 1..Len(c.instrs) : c.instrs[i].name = name

C15_Ordering ==
    /\ (call.op = "init_vmcs" /\ Executed(call, "VMPTRLD")) => VmxonSucceeded
    /\ (call.op = "init_vmxon" /\ Executed(call, "VMXON")) => EnableSucceeded

(***************************************************************************)
(* C16.  Over any sequence of virtualize_cpu and devirtualize_cpu calls on *)
(* one Vcpu, VMLAUNCH is executed only while the processor is in VMX       *)
(* operation (a successful VMXON not followed by VMXOFF) with a VMCS       *)
(* loaded by a successful VMPTRLD.                                         *)
(***************************************************************************)
C16_LaunchInVmx ==
    (call.op = "virtualize_cpu" /\ Executed(call, "VMLAUNCH")) =>
        /\ vmx.root
        /\ vmx.current_vmcs # 0

(***************************************************************************)
(* C17.  virtualize_cpu performs no rollback: when it fails at a step      *)
(* after earlier steps succeeded, CR4.VMXE, IA32_FEATURE_CONTROL, the      *)
(* adjusted CR0 and CR4 and (if VMXON succeeded) the VMX operation those   *)
(* steps left are as they left them, and virtualize_cpu issues no VMXOFF.  *)
(***************************************************************************)
\* The call failed at VcpuData initialization or at VMLAUNCH.
FailedLate(c) ==
    /\ c.op = "virtualize_cpu"
    /\ c.pc = "done"
    /\ c.ret # "Ok"
    /\ Len(c.steps) >= 3

SucceededIn(c, name) ==
    \E i \in 1..Len(c.instrs) : c.instrs[i].name = name /\ c.instrs[i].ok

C17_NoRollback ==
    /\ call.op = "virtualize_cpu" => ~Executed(call, "VMXOFF")
    /\ FailedLate(call) =>
        LET e == enable_vmx_operation(call.entry.cr4, call.entry.msr)
            a == adjust_control_registers(call.entry.cr0, e.cr4, e.msr)
        IN  /\ msr = e.msr
            /\ EnableSucceeded
            /\ cr0 = a.cr0
            /\ cr4 = a.cr4
            /\ CR4_ENABLE_VMX \in e.cr4
            /\ vmx.root <=>
                (call.entry.vmx.root \/ SucceededIn(call, "VMXON"))
            /\ SucceededIn(call, "VMPTRLD") => vmx.current_vmcs # 0
            /\ ~SucceededIn(call, "VMPTRLD") =>
                    vmx.current_vmcs = call.entry.vmx.current_vmcs

\* A call that entered VMX operation and then failed at VMPTRLD: the
\* processor is still in VMX operation, CR4.VMXE and the lock still set.
C17_Witness ==
    /\ FailedLate(call)
    /\ call.ret = "VMPTRLDFailed"
    /\ ~call.entry.vmx.root
    /\ CR4_ENABLE_VMX \notin call.entry.cr4
    /\ call.entry.msr.IA32_FEATURE_CONTROL = {}
    /\ vmx.root
    /\ CR4_ENABLE_VMX \in cr4
    /\ EnableSucceeded

(***************************************************************************)
(* C18.  The value 0 is never held as a region's cached physical address   *)
(* after init_msr_bitmap, init_vmxon or init_vmcs has run on that region,  *)
(* whether the operation succeeded or failed.                              *)
(***************************************************************************)
C18_CachedAddressNonZero ==
    /\ call.op = "init_msr_bitmap" =>
            Entry(call.index).msr_bitmap_physical_address # 0
    /\ call.op = "init_vmxon" =>
            Entry(call.index).vmxon_physical_address # 0
    /\ call.op = "init_vmcs" =>
            Entry(call.index).vmcs_physical_address # 0

(***************************************************************************)
(* C20.  Within virtualize_cpu, the CR4 VMX-enable bit that                *)
(* enable_vmx_operation set is still 1 after adjust_control_registers has  *)
(* run, for every IA32_VMX_CR4_FIXED0/FIXED1 pair, so CR4.VMXE = 1 and     *)
(* IA32_FEATURE_CONTROL has the lock and outside-SMX bits set when the     *)
(* VcpuData initialization executes VMXON.                                 *)
(***************************************************************************)
\* The call is past adjust_control_registers; CR4 and the MSRs then stay
\* as they are to the end of the call, the VMXON of the initialization
\* included.
AfterAdjust(c) == c.op = "virtualize_cpu" /\ Len(c.steps) >= 2

\* C20 as stated: for every FIXED0/FIXED1 pair.
C20_VmxeEveryPair ==
    AfterAdjust(call) =>
        /\ CR4_ENABLE_VMX \in cr4
        /\ {VMX_LOCK_BIT, VMXON_OUTSIDE_SMX}
                \subseteq msr.IA32_FEATURE_CONTROL

\* C20 amended: for every pair whose FIXED1 allows the VMX-enable bit; a
\* FIXED1 without it makes adjust_control_registers clear CR4.VMXE.
C20_VmxeKept ==
    AfterAdjust(call) =>
        /\ {VMX_LOCK_BIT, VMXON_OUTSIDE_SMX}
                \subseteq msr.IA32_FEATURE_CONTROL
        /\ CR4_ENABLE_VMX \in cr4
                <=> CR4_ENABLE_VMX \in msr.IA32_VMX_CR4_FIXED1

\* VMXON executed in a call that found CR4.VMXE clear, on a processor whose
\* FIXED0 does not force the bit and whose FIXED1 allows it.
C20_Witness ==
    /\ AfterAdjust(call)
    /\ SucceededIn(call, "VMXON")
    /\ CR4_ENABLE_VMX \notin call.entry.cr4
    /\ CR4_ENABLE_VMX \notin msr.IA32_VMX_CR4_FIXED0
    /\ CR4_ENABLE_VMX \in msr.IA32_VMX_CR4_FIXED1
    /\ CR4_ENABLE_VMX \in cr4

====
